---- MODULE Spec2Model ----
(***************************************************************************)
(* Model of the full-exit state transition (core/lib/state/src/handler/    *)
(* full_exit.rs) and of the priority-operation watcher (core/bin/          *)
(* zksync_core/src/eth_watch/client.rs).                                   *)
(*                                                                         *)
(* Option<T> is modelled as a sequence of length 0 (None) or 1 (Some(x)).  *)
(* A call ends in one of three ways: "Ok" (Ok(..) returned), "Err"         *)
(* (Err(..) returned) or "Panic" (assert!/expect/arithmetic abort).        *)
(***************************************************************************)
EXTENDS Integers, Sequences, FiniteSets, TLC

\* ---- bounds of the model ------------------------------------------------
MaxBalance == 2
MaxLogs == 2
MaxBlock == 2

\* ---- program constants (scaled down, order preserved:                 ----
\* ---- 0 < MIN_NFT_TOKEN_ID <= max_token_id < largest representable id) ----
MIN_NFT_TOKEN_ID == 1
max_token_id == 1

AccountIds == {7, 8}
Addresses == {"0xAA", "0xBB"}
Nonces == {3}
\* token ids the TokenId type can carry: fungible, NFT range, out of range
Tokens == 0 .. (max_token_id + 1)
Balances == 0 .. MaxBalance

None == <<>>
Some(x) == <<x>>
is_some(o) == Len(o) = 1
is_none(o) == Len(o) = 0
unwrap(o) == o[1]

\* ---- error texts ----------------------------------------------------------
ErrNftMissing == "NFT for full exit does not exist"
PanicTokenRange == "Full exit token is out of range, this should be enforced by contract"
PanicNoAccount == "Full exit account not found"
PanicAmount == "Full exit amount is incorrect"
PanicSubOverflow == "attempt to subtract with overflow"

\* ---- data types -----------------------------------------------------------
NftRecords ==
    { [creator_id |-> 7, serial_id |-> 0, content_hash |-> "h1"],
      [creator_id |-> 8, serial_id |-> 1, content_hash |-> "h2"] }

Account == [address : Addresses, nonce : Nonces, balances : [Tokens -> Balances]]

FullExit == [account_id : AccountIds, eth_address : Addresses, token : Tokens]

\* ---- ledger interface (ZkSyncState / Account) -----------------------------
get_account(self, account_id) ==
    IF account_id \in DOMAIN self.accounts THEN self.accounts[account_id] ELSE None

insert_account(self, account_id, account) ==
    [self EXCEPT !.accounts = [a \in DOMAIN self.accounts \cup {account_id} |->
        IF a = account_id THEN Some(account) ELSE self.accounts[a]]]

get_balance(account, token) ==
    IF token \in DOMAIN account.balances THEN account.balances[token] ELSE 0

\* BigUint subtraction aborts when the result would be negative
sub_balance_aborts(account, token, amount) == amount > get_balance(account, token)

sub_balance(account, token, amount) ==
    [account EXCEPT !.balances = [t \in DOMAIN account.balances \cup {token} |->
        IF t = token THEN get_balance(account, token) - amount
        ELSE account.balances[t]]]

\* ---- results --------------------------------------------------------------
Result(st, status, error, op, fee, updates, executed_op) ==
    [state |-> st, status |-> status, error |-> error, op |-> op,
     fee |-> fee, updates |-> updates, executed_op |-> executed_op,
     metrics |-> <<>>]

\* metrics::histogram!(name, ..): one duration observation under the name
histogram(r, name) == [r EXCEPT !.metrics = Append(@, name)]

Panicked(st, msg) == Result(st, "Panic", msg, None, None, <<>>, None)
Failed(st, msg) == Result(st, "Err", msg, None, None, <<>>, None)

\* ---- create_op ------------------------------------------------------------
\* variant: the range check with < in place of <=
token_in_range_strict(priority_op) == priority_op.token < max_token_id

\* assert!(priority_op.token <= params::max_token_id(), ..)
token_in_range(priority_op) == priority_op.token <= max_token_id

\* variant: the balance lookup without the owner filter
account_balance_unfiltered(self, priority_op) ==
    LET found == get_account(self, priority_op.account_id)
    IN IF is_some(found)
       THEN Some(get_balance(unwrap(found), priority_op.token))
       ELSE None

\* variant: a zero amount in place of an absent one
account_balance_defaulted(self, priority_op) ==
    LET found == get_account(self, priority_op.account_id)
    IN IF is_some(found) /\ unwrap(found).address = priority_op.eth_address
       THEN Some(get_balance(unwrap(found), priority_op.token))
       ELSE Some(0)

\* variant: the balance of token 0 whatever the exited token
account_balance_of_token_zero(self, priority_op) ==
    LET found == get_account(self, priority_op.account_id)
    IN IF is_some(found) /\ unwrap(found).address = priority_op.eth_address
       THEN Some(get_balance(unwrap(found), 0))
       ELSE None

\* variant: an empty balance recorded as an absent amount
account_balance_nonzero_only(self, priority_op) ==
    LET found == get_account(self, priority_op.account_id)
    IN IF /\ is_some(found)
          /\ unwrap(found).address = priority_op.eth_address
          /\ get_balance(unwrap(found), priority_op.token) > 0
       THEN Some(get_balance(unwrap(found), priority_op.token))
       ELSE None

\* get_account(..).filter(address matches).map(get_balance).map(BigUintSerdeWrapper)
account_balance(self, priority_op) ==
    LET found == get_account(self, priority_op.account_id)
        filtered == IF is_some(found) /\ unwrap(found).address = priority_op.eth_address
                    THEN found ELSE None
    IN IF is_some(filtered)
       THEN Some(get_balance(unwrap(filtered), priority_op.token))
       ELSE None

\* variant: the NFT threshold with > in place of >=
is_nft_token_exclusive(priority_op) == priority_op.token > MIN_NFT_TOKEN_ID

\* priority_op.token.0 >= MIN_NFT_TOKEN_ID
is_nft_token(priority_op) == priority_op.token >= MIN_NFT_TOKEN_ID

DefaultNft == [creator_id |-> 0, serial_id |-> 0, content_hash |-> ""]

\* variant: a default record in place of a missing one
nft_lookup_or_default(self, token) ==
    IF token \in DOMAIN self.nfts /\ is_some(self.nfts[token])
    THEN self.nfts[token] ELSE Some(DefaultNft)

\* self.nfts.get(&priority_op.token)
nft_lookup(self, token) ==
    IF token \in DOMAIN self.nfts THEN self.nfts[token] ELSE None

\* variant: create_op taking the account out of the ledger it reads
create_op_takes_account(self, priority_op) ==
    IF ~token_in_range(priority_op)
    THEN Panicked(self, PanicTokenRange)
    ELSE
      LET balance == account_balance(self, priority_op)
          taken == IF is_some(balance)
                   THEN [self EXCEPT !.accounts[priority_op.account_id] = None]
                   ELSE self
      IN IF is_nft_token(priority_op)
         THEN LET nft == nft_lookup(self, priority_op.token)
              IN IF is_none(nft)
                 THEN Failed(taken, ErrNftMissing)
                 ELSE Result(taken, "Ok", "",
                        Some([priority_op |-> priority_op,
                              withdraw_amount |-> balance,
                              creator_account_id |-> Some(unwrap(nft).creator_id),
                              serial_id |-> Some(unwrap(nft).serial_id),
                              content_hash |-> Some(unwrap(nft).content_hash)]),
                        None, <<>>, None)
         ELSE Result(taken, "Ok", "",
                Some([priority_op |-> priority_op,
                      withdraw_amount |-> balance,
                      creator_account_id |-> None,
                      serial_id |-> None,
                      content_hash |-> None]),
                None, <<>>, None)

\* create_op takes &self: the ledger it returns is the ledger it was given
create_op(self, priority_op) ==
    IF ~token_in_range(priority_op)
    THEN Panicked(self, PanicTokenRange)
    ELSE
      LET balance == account_balance(self, priority_op)
      IN IF is_nft_token(priority_op)
         THEN LET nft == nft_lookup(self, priority_op.token)
              IN IF is_none(nft)
                 THEN Failed(self, ErrNftMissing)
                 ELSE Result(self, "Ok", "",
                        Some([priority_op |-> priority_op,
                              withdraw_amount |-> balance,
                              creator_account_id |-> Some(unwrap(nft).creator_id),
                              serial_id |-> Some(unwrap(nft).serial_id),
                              content_hash |-> Some(unwrap(nft).content_hash)]),
                        None, <<>>, None)
         ELSE Result(self, "Ok", "",
                Some([priority_op |-> priority_op,
                      withdraw_amount |-> balance,
                      creator_account_id |-> None,
                      serial_id |-> None,
                      content_hash |-> None]),
                None, <<>>, None)

\* ---- apply_op -------------------------------------------------------------
\* variant: old and new balance in the wrong order
balance_update_swapped(account_id, token, old_balance, new_balance, old_nonce, new_nonce) ==
    [account_id |-> account_id, token |-> token,
     old_balance |-> new_balance, new_balance |-> old_balance,
     old_nonce |-> old_nonce, new_nonce |-> new_nonce]

\* (account_id, AccountUpdate::UpdateBalance { balance_update, old_nonce, new_nonce })
balance_update(account_id, token, old_balance, new_balance, old_nonce, new_nonce) ==
    [account_id |-> account_id, token |-> token,
     old_balance |-> old_balance, new_balance |-> new_balance,
     old_nonce |-> old_nonce, new_nonce |-> new_nonce]

\* variant: insert_account ahead of the zero-balance assertion
apply_op_writes_before_assert(self, op) ==
    IF is_none(op.withdraw_amount)
    THEN Result(self, "Ok", "", None, None, <<>>, None)
    ELSE
      LET amount == unwrap(op.withdraw_amount)
          account_id == op.priority_op.account_id
          token == op.priority_op.token
          found == get_account(self, account_id)
      IN IF is_none(found)
         THEN Panicked(self, PanicNoAccount)
         ELSE
           LET account == unwrap(found)
               old_balance == get_balance(account, token)
               old_nonce == account.nonce
           IN IF sub_balance_aborts(account, token, amount)
              THEN Panicked(self, PanicSubOverflow)
              ELSE
                LET account1 == sub_balance(account, token, amount)
                    new_balance == get_balance(account1, token)
                    written == insert_account(self, account_id, account1)
                IN IF new_balance # 0
                   THEN Panicked(written, PanicAmount)
                   ELSE histogram(
                          Result(written, "Ok", "", None, None,
                                 << balance_update(account_id, token, old_balance,
                                                   new_balance, old_nonce, account1.nonce) >>,
                                 None),
                          "state.full_exit")

\* variant: the account written back with every balance emptied
apply_op_clears_account(self, op) ==
    IF is_none(op.withdraw_amount)
    THEN Result(self, "Ok", "", None, None, <<>>, None)
    ELSE
      LET amount == unwrap(op.withdraw_amount)
          account_id == op.priority_op.account_id
          token == op.priority_op.token
          found == get_account(self, account_id)
      IN IF is_none(found)
         THEN Panicked(self, PanicNoAccount)
         ELSE
           LET account == unwrap(found)
               old_balance == get_balance(account, token)
               old_nonce == account.nonce
           IN IF sub_balance_aborts(account, token, amount)
              THEN Panicked(self, PanicSubOverflow)
              ELSE
                LET account1 == [sub_balance(account, token, amount)
                                   EXCEPT !.balances = [t \in Tokens |-> 0]]
                    new_balance == get_balance(sub_balance(account, token, amount), token)
                IN IF new_balance # 0
                   THEN Panicked(self, PanicAmount)
                   ELSE histogram(
                          Result(insert_account(self, account_id, account1), "Ok", "",
                                 None, None,
                                 << balance_update(account_id, token, old_balance,
                                                   new_balance, old_nonce, account1.nonce) >>,
                                 None),
                          "state.full_exit")

\* variant: the balance set to zero in place of the subtraction
apply_op_sets_zero(self, op) ==
    IF is_none(op.withdraw_amount)
    THEN Result(self, "Ok", "", None, None, <<>>, None)
    ELSE
      LET account_id == op.priority_op.account_id
          token == op.priority_op.token
          found == get_account(self, account_id)
      IN IF is_none(found)
         THEN Panicked(self, PanicNoAccount)
         ELSE
           LET account == unwrap(found)
               old_balance == get_balance(account, token)
               old_nonce == account.nonce
               account1 == sub_balance(account, token, old_balance)
               new_balance == get_balance(account1, token)
           IN histogram(
                Result(insert_account(self, account_id, account1), "Ok", "",
                       None, None,
                       << balance_update(account_id, token, old_balance,
                                         new_balance, old_nonce, account1.nonce) >>,
                       None),
                "state.full_exit")

apply_op(self, op) ==
    IF is_none(op.withdraw_amount)
    \* return Ok((None, updates)): leaves before the histogram at the end
    THEN Result(self, "Ok", "", None, None, <<>>, None)
    ELSE
      LET amount == unwrap(op.withdraw_amount)
          account_id == op.priority_op.account_id
          token == op.priority_op.token
          found == get_account(self, account_id)
      IN IF is_none(found)
         THEN Panicked(self, PanicNoAccount)
         ELSE
           \* account is a copy: the ledger changes only at insert_account
           LET account == unwrap(found)
               old_balance == get_balance(account, token)
               old_nonce == account.nonce
           IN IF sub_balance_aborts(account, token, amount)
              THEN Panicked(self, PanicSubOverflow)
              ELSE
                LET account1 == sub_balance(account, token, amount)
                    new_balance == get_balance(account1, token)
                IN IF new_balance # 0
                   THEN Panicked(self, PanicAmount)
                   ELSE
                     LET new_nonce == account1.nonce
                     IN histogram(
                          Result(insert_account(self, account_id, account1), "Ok", "",
                                 None, None,
                                 << balance_update(account_id, token, old_balance,
                                                   new_balance, old_nonce, new_nonce) >>,
                                 None),
                          "state.full_exit")

\* ---- apply_tx -------------------------------------------------------------
\* variant: the executed op computed again after apply_op
apply_tx_recreates_op(self, priority_op) ==
    LET created == create_op(self, priority_op)
    IN IF created.status # "Ok"
       THEN Result(created.state, created.status, created.error, None, None, <<>>, None)
       ELSE
         LET applied == apply_op(created.state, unwrap(created.op))
         IN IF applied.status # "Ok"
            THEN Result(applied.state, applied.status, applied.error, None, None, <<>>, None)
            ELSE [Result(applied.state, "Ok", "", None, applied.fee, applied.updates,
                         Some([tag |-> "FullExit",
                               op |-> unwrap(create_op(applied.state, priority_op).op)]))
                    EXCEPT !.metrics = applied.metrics]

\* variant: the balance drained before the error of create_op is returned
apply_tx_drains_before_error(self, priority_op) ==
    LET created == create_op(self, priority_op)
    IN IF created.status = "Panic"
       THEN Result(created.state, created.status, created.error, None, None, <<>>, None)
       ELSE IF created.status = "Err"
       THEN LET op == [priority_op |-> priority_op,
                       withdraw_amount |-> account_balance(self, priority_op),
                       creator_account_id |-> None, serial_id |-> None,
                       content_hash |-> None]
            IN Result(apply_op(created.state, op).state, created.status, created.error,
                      None, None, <<>>, None)
       ELSE
         LET op == unwrap(created.op)
             applied == apply_op(created.state, op)
         IN IF applied.status # "Ok"
            THEN Result(applied.state, applied.status, applied.error, None, None, <<>>, None)
            ELSE [Result(applied.state, "Ok", "", None, applied.fee, applied.updates,
                         Some([tag |-> "FullExit", op |-> op]))
                    EXCEPT !.metrics = applied.metrics]

apply_tx(self, priority_op) ==
    LET created == create_op(self, priority_op)
    IN IF created.status # "Ok"
       \* `?`: the error (or the abort) of create_op ends apply_tx
       THEN Result(created.state, created.status, created.error, None, None, <<>>, None)
       ELSE
         LET op == unwrap(created.op)
             applied == apply_op(created.state, op)
         IN IF applied.status # "Ok"
            THEN Result(applied.state, applied.status, applied.error, None, None, <<>>, None)
            ELSE [Result(applied.state, "Ok", "", None, applied.fee, applied.updates,
                         Some([tag |-> "FullExit", op |-> op]))
                    EXCEPT !.metrics = applied.metrics]

\* ---- state ----------------------------------------------------------------
\* state: the ledger (ZkSyncState); call: the last handler call and its outcome;
\* chain: the logs held by the settlement-chain node; watch: the last
\* get_priority_op_events call; query: the last other read of the watcher;
\* race: two full exits whose create_op and apply_op steps are interleaved
VARIABLES state, call, chain, watch, query, race

vars == <<state, call, chain, watch, query, race>>

\* ---- priority-operation watcher (eth_watch/client.rs) ---------------------
RollupAddress == "zksync_contract"
NewPriorityRequest == "NewPriorityRequest"
Blocks == 1 .. MaxBlock

\* payload of a log: <<serial id, operation kind>> when well formed
GoodData == { <<0, "Deposit">>, <<1, "FullExit">> }
BadData == <<>>

\* logs a node may hold: priority requests of the rollup contract (well formed
\* or not) and logs of another contract or with another topic
Logs ==
    { [address |-> RollupAddress, topic0 |-> NewPriorityRequest, block_number |-> b, data |-> d] :
        b \in Blocks, d \in GoodData \cup {BadData} }
    \cup { [address |-> "other_contract", topic0 |-> NewPriorityRequest, block_number |-> b,
            data |-> BadData] : b \in Blocks }
    \cup { [address |-> RollupAddress, topic0 |-> "OtherEvent", block_number |-> b,
            data |-> BadData] : b \in Blocks }

\* ContractTopics::new: the signature of the NewPriorityRequest event
ContractTopics == [new_priority_request |-> NewPriorityRequest]

\* variant: a filter whose upper block is exclusive
FilterBuilder_exclusive_to(address, from, to, topics) ==
    [address |-> address, from_block |-> from, to_block |-> to - 1, topic0 |-> topics]

FilterBuilder(address, from, to, topics) ==
    [address |-> address, from_block |-> from, to_block |-> to, topic0 |-> topics]

\* web3.eth().logs(filter): the node's logs that match, in chain order
eth_logs(node, filter) ==
    SelectSeq(node, LAMBDA l :
        /\ l.address \in filter.address
        /\ l.topic0 \in filter.topic0
        /\ filter.from_block <= l.block_number
        /\ l.block_number <= filter.to_block)

\* PriorityOp::try_from(Log)
try_from(event) ==
    IF Len(event.data) = 2
    THEN [ok |-> TRUE,
          value |-> Some([serial_id |-> event.data[1], data |-> event.data[2],
                          eth_block |-> event.block_number])]
    ELSE [ok |-> FALSE, value |-> None]

WatchResult(status, error, ops) ==
    [status |-> status, error |-> error, ops |-> ops, metrics |-> <<>>]

ErrParse == "Failed to parse event log from ETH"
ErrRemote == "web3 transport error"

\* variant: logs that fail to decode are skipped
RECURSIVE collect_skips_malformed(_, _)
collect_skips_malformed(events, acc) ==
    IF events = <<>>
    THEN WatchResult("Ok", "", acc)
    ELSE LET r == try_from(Head(events))
         IN IF r.ok
            THEN collect_skips_malformed(Tail(events), Append(acc, unwrap(r.value)))
            ELSE collect_skips_malformed(Tail(events), acc)

\* .map(try_from).collect::<Result<Vec<T>, _>>(): stops at the first Err
RECURSIVE collect(_, _)
collect(events, acc) ==
    IF events = <<>>
    THEN WatchResult("Ok", "", acc)
    ELSE LET r == try_from(Head(events))
         IN IF r.ok
            THEN collect(Tail(events), Append(acc, unwrap(r.value)))
            ELSE WatchResult("Err", ErrParse, <<>>)

\* variant: a watcher that resumes after the last block it has returned
get_events_resuming(node, net_ok, from, to, topics) ==
    LET seen == IF watch.name = "get_priority_op_events" /\ watch.res.status = "Ok"
                   /\ watch.res.ops # <<>>
                THEN watch.res.ops[Len(watch.res.ops)].eth_block ELSE 0
        start == IF from > seen THEN from ELSE seen + 1
        filter == FilterBuilder({RollupAddress}, start, to, topics)
    IN IF ~net_ok
       THEN WatchResult("Err", ErrRemote, <<>>)
       ELSE collect(eth_logs(node, filter), <<>>)

get_events(node, net_ok, from, to, topics) ==
    LET filter == FilterBuilder({RollupAddress}, from, to, topics)
    IN IF ~net_ok
       THEN WatchResult("Err", ErrRemote, <<>>)
       ELSE collect(eth_logs(node, filter), <<>>)

get_priority_op_events(node, net_ok, from, to) ==
    LET result == get_events(node, net_ok, from, to, {ContractTopics.new_priority_request})
    IN [result EXCEPT !.metrics = Append(@, "eth_watcher.get_priority_op_events")]

\* the other reads: chain height and the contract's authorization facts
QueryResult(status, error, value) == [status |-> status, error |-> error, value |-> value]

ErrAuthFacts == "Failed to query contract authFacts"

\* storage of the rollup contract, as the node serves it
authFacts == [a \in Addresses |-> IF a = "0xAA" THEN <<1, 2>> ELSE <<>>]
authFactsResetTimer == [a \in Addresses |-> IF a = "0xAA" THEN 5 ELSE 0]

\* the node's current height: the block of the newest log it holds
eth_block_number(node) == IF node = <<>> THEN 0 ELSE node[Len(node)].block_number

block_number(node, net_ok) ==
    IF ~net_ok THEN QueryResult("Err", ErrRemote, None)
    ELSE QueryResult("Ok", "", Some(eth_block_number(node)))

get_auth_fact(net_ok, address, nonce) ==
    IF ~net_ok THEN QueryResult("Err", ErrAuthFacts, None)
    ELSE QueryResult("Ok", "", Some(authFacts[address]))

get_auth_fact_reset_time(net_ok, address, nonce) ==
    IF ~net_ok THEN QueryResult("Err", ErrAuthFacts, None)
    ELSE QueryResult("Ok", "", Some(authFactsResetTimer[address]))

\* ---- initial values and input sets ----------------------------------------
NoWatch == [name |-> "none", from |-> 0, to |-> 0, net_ok |-> TRUE,
            node |-> <<>>, res |-> WatchResult("Ok", "", <<>>)]

NoQuery == [name |-> "none", res |-> QueryResult("Ok", "", None)]

NoRace == [exits |-> <<>>, pc |-> <<>>, ops |-> <<>>, out |-> <<>>, initial |-> 0, paid |-> 0]

NoCall == [name |-> "none", priority_op |-> None, op |-> None, pre |-> None, res |-> None]

\* ledgers the program can hold: no balance on a token id above the maximum,
\* at most one unit of a non-fungible token, one account per owner address,
\* NFT records only for token ids of the NFT range
Accounts ==
    { x \in Account : \A t \in Tokens :
        /\ (t > max_token_id => x.balances[t] = 0)
        /\ (t >= MIN_NFT_TOKEN_ID => x.balances[t] <= 1) }

Ledgers ==
    { [accounts |-> acc, nfts |-> n] :
        acc \in { f \in [AccountIds -> {None} \cup { Some(a) : a \in Accounts }] :
                    \A i, j \in AccountIds :
                        (i # j /\ is_some(f[i]) /\ is_some(f[j])) =>
                            unwrap(f[i]).address # unwrap(f[j]).address },
        n \in { f \in [Tokens -> {None} \cup { Some(r) : r \in NftRecords }] :
                    \A t \in Tokens : (t < MIN_NFT_TOKEN_ID \/ t > max_token_id) => f[t] = None } }

\* ops that may be handed to apply_op: any full exit with any recorded amount
FullExitOps ==
    { [priority_op |-> p, withdraw_amount |-> w,
       creator_account_id |-> None, serial_id |-> None, content_hash |-> None] :
        p \in FullExit, w \in {None} \cup { Some(b) : b \in Balances } }

Init ==
    /\ state \in Ledgers
    /\ call = NoCall
    /\ chain = <<>>
    /\ watch = NoWatch
    /\ query = NoQuery
    /\ race = NoRace

\* a panic stops the process: no further call is made
running == IF call.name = "none" THEN TRUE ELSE unwrap(call.res).status # "Panic"

CreateOp ==
    /\ running
    /\ \E p \in FullExit :
         LET r == create_op(state, p)
         IN /\ state' = r.state
            /\ call' = [name |-> "create_op", priority_op |-> Some(p), op |-> None,
                        pre |-> Some(state), res |-> Some(r)]
            /\ UNCHANGED <<chain, watch, query, race>>

ApplyOp ==
    /\ running
    /\ \E o \in FullExitOps :
         LET r == apply_op(state, o)
         IN /\ state' = r.state
            /\ call' = [name |-> "apply_op", priority_op |-> None, op |-> Some(o),
                        pre |-> Some(state), res |-> Some(r)]
            /\ UNCHANGED <<chain, watch, query, race>>

ApplyTx ==
    /\ running
    /\ \E p \in FullExit :
         LET r == apply_tx(state, p)
         IN /\ state' = r.state
            /\ call' = [name |-> "apply_tx", priority_op |-> Some(p), op |-> None,
                        pre |-> Some(state), res |-> Some(r)]
            /\ UNCHANGED <<chain, watch, query, race>>

Next == CreateOp \/ ApplyOp \/ ApplyTx

Spec == Init /\ [][Next]_vars

\* ---- the watcher against a growing chain -----------------------------------
EmptyLedger == [accounts |-> [a \in AccountIds |-> None], nfts |-> [t \in Tokens |-> None]]

WatchInit ==
    /\ state = EmptyLedger
    /\ call = NoCall
    /\ chain = <<>>
    /\ watch = NoWatch
    /\ query = NoQuery
    /\ race = NoRace

\* the settlement chain appends a log (block heights never decrease)
Mine ==
    /\ Len(chain) < MaxLogs
    /\ \E l \in Logs :
         /\ (chain # <<>> => chain[Len(chain)].block_number <= l.block_number)
         /\ chain' = Append(chain, l)
    /\ UNCHANGED <<state, call, watch, query, race>>

\* a call with a range from..to (from <= to; what a node answers to an inverted
\* range is not the client's doing); net_ok: whether the request reaches the node
GetPriorityOpEvents ==
    /\ \E from \in Blocks, to \in Blocks, net_ok \in BOOLEAN :
         /\ from <= to
         /\ watch' = [name |-> "get_priority_op_events", from |-> from, to |-> to,
                      net_ok |-> net_ok, node |-> chain,
                      res |-> get_priority_op_events(chain, net_ok, from, to)]
    /\ UNCHANGED <<state, call, chain, query, race>>

BlockNumber ==
    /\ \E net_ok \in BOOLEAN :
         query' = [name |-> "block_number", res |-> block_number(chain, net_ok)]
    /\ UNCHANGED <<state, call, chain, watch, race>>

GetAuthFact ==
    /\ \E net_ok \in BOOLEAN, address \in Addresses, nonce \in Nonces :
         query' = [name |-> "get_auth_fact", res |-> get_auth_fact(net_ok, address, nonce)]
    /\ UNCHANGED <<state, call, chain, watch, race>>

GetAuthFactResetTime ==
    /\ \E net_ok \in BOOLEAN, address \in Addresses, nonce \in Nonces :
         query' = [name |-> "get_auth_fact_reset_time",
                   res |-> get_auth_fact_reset_time(net_ok, address, nonce)]
    /\ UNCHANGED <<state, call, chain, watch, race>>

WatchNext ==
    Mine \/ GetPriorityOpEvents \/ BlockNumber \/ GetAuthFact \/ GetAuthFactResetTime

WatchSpec == WatchInit /\ [][WatchNext]_vars

\* ---- two full exits of one account and token, steps interleaved ------------
\* each exit runs create_op, then apply_op on the op it got; the steps of the
\* two exits may alternate.  exits: the two full exits; pc: what each does
\* next; ops: the op each holds; out: how its apply_op ended; initial: the
\* balance the account held at the start; paid: the sum of the withdrawal
\* amounts of the apply_op calls that returned
\* the balance the ledger holds for an account and token, zero without account
balance_of(ledger, account_id, token) ==
    IF is_some(get_account(ledger, account_id))
    THEN get_balance(unwrap(get_account(ledger, account_id)), token)
    ELSE 0

RaceInit ==
    /\ state \in Ledgers
    /\ call = NoCall
    /\ chain = <<>>
    /\ watch = NoWatch
    /\ query = NoQuery
    /\ \E a \in AccountIds, t \in Tokens, e1 \in Addresses, e2 \in Addresses :
         race = [exits |-> << [account_id |-> a, eth_address |-> e1, token |-> t],
                             [account_id |-> a, eth_address |-> e2, token |-> t] >>,
                 pc |-> << "create_op", "create_op" >>,
                 ops |-> << None, None >>,
                 out |-> << "", "" >>,
                 initial |-> balance_of(state, a, t),
                 paid |-> 0]

RaceCreateOp ==
    /\ running
    /\ \E i \in 1 .. 2 :
         /\ race.pc[i] = "create_op"
         /\ LET r == create_op(state, race.exits[i])
            IN /\ state' = r.state
               /\ call' = [name |-> "create_op", priority_op |-> Some(race.exits[i]),
                           op |-> None, pre |-> Some(state), res |-> Some(r)]
               /\ race' = [race EXCEPT
                             !.pc[i] = IF r.status = "Ok" THEN "apply_op" ELSE "done",
                             !.ops[i] = r.op]
    /\ UNCHANGED <<chain, watch, query>>

RaceApplyOp ==
    /\ running
    /\ \E i \in 1 .. 2 :
         /\ race.pc[i] = "apply_op"
         /\ LET o == unwrap(race.ops[i])
                r == apply_op(state, o)
            IN /\ state' = r.state
               /\ call' = [name |-> "apply_op", priority_op |-> None, op |-> Some(o),
                           pre |-> Some(state), res |-> Some(r)]
               /\ race' = [race EXCEPT
                             !.pc[i] = "done",
                             !.out[i] = r.status,
                             !.paid = IF r.status = "Ok" /\ is_some(o.withdraw_amount)
                                      THEN @ + unwrap(o.withdraw_amount) ELSE @]
    /\ UNCHANGED <<chain, watch, query>>

RaceNext == RaceCreateOp \/ RaceApplyOp

RaceSpec == RaceInit /\ [][RaceNext]_vars

\* ---- the last call, as the properties read it ---------------------------
last_res == unwrap(call.res)
last_pre == unwrap(call.pre)
last_fe == unwrap(call.priority_op)
last_op == unwrap(call.op)

\* the account exists and its recorded owner is the claimed address
owner_matches(ledger, p) ==
    /\ is_some(get_account(ledger, p.account_id))
    /\ unwrap(get_account(ledger, p.account_id)).address = p.eth_address

\* create_op returns an op for this full exit: the token id is in range and,
\* in the NFT range, the registry holds its record
creatable(ledger, p) ==
    /\ p.token <= max_token_id
    /\ (p.token >= MIN_NFT_TOKEN_ID => is_some(ledger.nfts[p.token]))

\* ---- C1 ---------------------------------------------------------------------
\* C1: when account and claimed owner match, after apply_tx (create_op followed
\* by apply_op) the balance of the exited token is zero, exactly one
\* AccountUpdate is emitted, its old balance is the balance before the call,
\* its new balance is zero, and old nonce = new nonce = the account's nonce,
\* which the ledger keeps.
C1_FullExitDrainsToZero ==
    (call.name = "apply_tx" /\ last_res.status = "Ok" /\ owner_matches(last_pre, last_fe)) =>
        LET before == unwrap(get_account(last_pre, last_fe.account_id))
            after == get_account(state, last_fe.account_id)
        IN /\ is_some(after)
           /\ get_balance(unwrap(after), last_fe.token) = 0
           /\ Len(last_res.updates) = 1
           /\ last_res.updates[1].old_balance = get_balance(before, last_fe.token)
           /\ last_res.updates[1].new_balance = 0
           /\ last_res.updates[1].old_nonce = before.nonce
           /\ last_res.updates[1].new_nonce = before.nonce
           /\ unwrap(after).nonce = before.nonce

C1_Witness ==
    /\ call.name = "apply_tx"
    /\ last_res.status = "Ok"
    /\ owner_matches(last_pre, last_fe)
    /\ balance_of(last_pre, last_fe.account_id, last_fe.token) > 0
    /\ balance_of(state, last_fe.account_id, last_fe.token) = 0

\* ---- C2 ---------------------------------------------------------------------
\* C2: every successful apply_tx has exactly one of two outcomes: (i) the ledger
\* is unchanged and the update list is empty, exactly when the account is absent
\* or the claimed owner does not match; (ii) the exited token balance is zero
\* afterwards and exactly one AccountUpdate is emitted.  The balance is never
\* left strictly between zero and its previous value.
C2_NoOpOrFullDrain ==
    (call.name = "apply_tx" /\ last_res.status = "Ok") =>
        LET noop == state = last_pre /\ last_res.updates = <<>>
            drained == /\ is_some(get_account(state, last_fe.account_id))
                       /\ balance_of(state, last_fe.account_id, last_fe.token) = 0
                       /\ Len(last_res.updates) = 1
            old == balance_of(last_pre, last_fe.account_id, last_fe.token)
            new == balance_of(state, last_fe.account_id, last_fe.token)
        IN /\ noop <=> ~owner_matches(last_pre, last_fe)
           /\ drained <=> owner_matches(last_pre, last_fe)
           /\ ~(0 < new /\ new < old)
           /\ new \in {0, old}

C2_Witness ==
    /\ call.name = "apply_tx"
    /\ last_res.status = "Ok"
    /\ is_some(get_account(last_pre, last_fe.account_id))
    /\ ~owner_matches(last_pre, last_fe)
    /\ balance_of(last_pre, last_fe.account_id, last_fe.token) > 0
    /\ state = last_pre

\* the op a create_op or apply_tx call handed back (None when it returned none)
returned_op ==
    IF call.name = "create_op" THEN last_res.op
    ELSE IF is_some(last_res.executed_op) THEN Some(unwrap(last_res.executed_op).op)
    ELSE None

\* ---- C3 ---------------------------------------------------------------------
\* C3 as stated: for any token id, when the account is absent or its address
\* differs from the claimed one, create_op yields an op with absent withdrawal
\* amount and applying it yields no updates and leaves the ledger unchanged.
C3_NoOpForAnyToken ==
    (call.name \in {"create_op", "apply_tx"} /\ ~owner_matches(last_pre, last_fe)) =>
        /\ last_res.status = "Ok"
        /\ is_some(returned_op)
        /\ is_none(unwrap(returned_op).withdraw_amount)
        /\ last_res.updates = <<>>
        /\ state = last_pre

\* C3 amended: the same, for the full exits create_op returns an op for (token
\* id not above the maximum and, in the NFT range, recorded in the registry);
\* and apply_op on any op with absent amount returns no updates and leaves the
\* whole ledger unchanged.
C3_NoOpWhenAbsentOrMismatch ==
    /\ (/\ call.name \in {"create_op", "apply_tx"}
        /\ ~owner_matches(last_pre, last_fe)
        /\ creatable(last_pre, last_fe)) =>
           /\ last_res.status = "Ok"
           /\ is_some(returned_op)
           /\ unwrap(returned_op).priority_op = last_fe
           /\ is_none(unwrap(returned_op).withdraw_amount)
           /\ last_res.updates = <<>>
           /\ state = last_pre
    /\ (call.name = "apply_op" /\ is_none(last_op.withdraw_amount)) =>
           /\ last_res.status = "Ok"
           /\ last_res.updates = <<>>
           /\ state = last_pre

C3_Witness ==
    /\ call.name = "apply_tx"
    /\ is_some(get_account(last_pre, last_fe.account_id))
    /\ ~owner_matches(last_pre, last_fe)
    /\ last_fe.token >= MIN_NFT_TOKEN_ID
    /\ creatable(last_pre, last_fe)
    /\ balance_of(last_pre, last_fe.account_id, last_fe.token) > 0
    /\ last_res.status = "Ok"
    /\ is_none(unwrap(returned_op).withdraw_amount)

\* ---- C4 ---------------------------------------------------------------------
\* C4 as stated: for every token id at or above the NFT threshold without a
\* registry record, create_op fails with the missing-NFT error.
C4_MissingNftAlwaysErr ==
    (/\ call.name = "create_op"
     /\ last_fe.token >= MIN_NFT_TOKEN_ID
     /\ is_none(last_pre.nfts[last_fe.token])) =>
        /\ last_res.status = "Err"
        /\ last_res.error = ErrNftMissing
        /\ is_none(last_res.op)

\* C4 amended: for every token id at or above the NFT threshold and not above
\* the maximum token id, without a registry record, create_op fails with the
\* missing-NFT error whatever the account and owner; it returns no op.
C4_MissingNftErrInRange ==
    (/\ call.name = "create_op"
     /\ last_fe.token >= MIN_NFT_TOKEN_ID
     /\ last_fe.token <= max_token_id
     /\ is_none(last_pre.nfts[last_fe.token])) =>
        /\ last_res.status = "Err"
        /\ last_res.error = ErrNftMissing
        /\ is_none(last_res.op)

C4_Witness ==
    /\ call.name = "create_op"
    /\ last_fe.token >= MIN_NFT_TOKEN_ID
    /\ last_fe.token <= max_token_id
    /\ is_none(last_pre.nfts[last_fe.token])
    /\ owner_matches(last_pre, last_fe)
    /\ last_res.status = "Err"

\* ---- C5 ---------------------------------------------------------------------
\* C5: the op create_op returns carries NFT metadata exactly when the token id
\* is at or above the NFT threshold; then creator id, serial id and content
\* hash are the registry's values for that token; below it all three are absent.
C5_NftMetadataFromRegistry ==
    (call.name = "create_op" /\ last_res.status = "Ok") =>
        LET op == unwrap(last_res.op)
            nft == last_pre.nfts[last_fe.token]
        IN IF last_fe.token >= MIN_NFT_TOKEN_ID
           THEN /\ is_some(nft)
                /\ op.creator_account_id = Some(unwrap(nft).creator_id)
                /\ op.serial_id = Some(unwrap(nft).serial_id)
                /\ op.content_hash = Some(unwrap(nft).content_hash)
           ELSE /\ is_none(op.creator_account_id)
                /\ is_none(op.serial_id)
                /\ is_none(op.content_hash)

C5_Witness ==
    /\ call.name = "create_op"
    /\ last_res.status = "Ok"
    /\ last_fe.token >= MIN_NFT_TOKEN_ID
    /\ unwrap(last_res.op).content_hash = Some("h2")
    /\ unwrap(last_res.op).creator_account_id = Some(8)

\* ---- C6 ---------------------------------------------------------------------
\* C6: apply_tx ends as create_op on the initial ledger followed by apply_op on
\* the op it returned: same final ledger, same (absent) fee, same update list,
\* and the executed operation is a FullExit record holding exactly that op.
C6_ApplyTxIsCreateThenApply ==
    (call.name = "apply_tx") =>
        LET created == create_op(last_pre, last_fe)
        IN IF created.status # "Ok"
           THEN /\ last_res.status = created.status
                /\ last_res.error = created.error
                /\ state = last_pre
                /\ last_res.updates = <<>>
                /\ is_none(last_res.executed_op)
           ELSE LET applied == apply_op(last_pre, unwrap(created.op))
                IN /\ last_res.status = applied.status
                   /\ last_res.error = applied.error
                   /\ state = applied.state
                   /\ last_res.fee = applied.fee
                   /\ is_none(last_res.fee)
                   /\ last_res.updates = applied.updates
                   /\ (applied.status = "Ok" =>
                         last_res.executed_op =
                            Some([tag |-> "FullExit", op |-> unwrap(created.op)]))

C6_Witness ==
    /\ call.name = "apply_tx"
    /\ last_res.status = "Ok"
    /\ last_fe.token >= MIN_NFT_TOKEN_ID
    /\ is_some(last_res.executed_op)
    /\ unwrap(last_res.executed_op).op.withdraw_amount = Some(1)
    /\ Len(last_res.updates) = 1

\* ---- C7 ---------------------------------------------------------------------
\* C7: apply_op on an op whose withdrawal amount is present but smaller than the
\* account's balance of the token aborts (fatal invariant breach, no error
\* value), the ledger is exactly as before the call and no update is emitted.
C7_PartialDrainAbortsUnwritten ==
    (/\ call.name = "apply_op"
     /\ is_some(last_op.withdraw_amount)
     /\ is_some(get_account(last_pre, last_op.priority_op.account_id))
     /\ unwrap(last_op.withdraw_amount)
          < balance_of(last_pre, last_op.priority_op.account_id, last_op.priority_op.token)) =>
        /\ last_res.status = "Panic"
        /\ last_res.error = PanicAmount
        /\ state = last_pre
        /\ last_res.updates = <<>>

C7_Witness ==
    /\ call.name = "apply_op"
    /\ is_some(last_op.withdraw_amount)
    /\ is_some(get_account(last_pre, last_op.priority_op.account_id))
    /\ unwrap(last_op.withdraw_amount)
          < balance_of(last_pre, last_op.priority_op.account_id, last_op.priority_op.token)
    /\ unwrap(last_op.withdraw_amount) > 0
    /\ last_res.status = "Panic"

last_fetched ==
    eth_logs(watch.node, FilterBuilder({RollupAddress}, watch.from, watch.to,
                                       {ContractTopics.new_priority_request}))

\* C10: if decoding fails for any one of the fetched logs, the whole call fails
\* and returns no operations: neither the ones decoded before the bad log nor
\* the rest with the bad log skipped.
C10_DecodeFailureFailsWholeCall ==
    (/\ watch.name = "get_priority_op_events"
     /\ watch.net_ok
     /\ \E i \in 1 .. Len(last_fetched) : ~try_from(last_fetched[i]).ok) =>
        /\ watch.res.status = "Err"
        /\ watch.res.error = ErrParse
        /\ watch.res.ops = <<>>

C10_Witness ==
    /\ watch.name = "get_priority_op_events"
    /\ watch.net_ok
    /\ Len(last_fetched) >= 2
    /\ try_from(last_fetched[1]).ok
    /\ ~try_from(last_fetched[2]).ok
    /\ watch.res.status = "Err"

expected_logs ==
    SelectSeq(watch.node, LAMBDA l :
        /\ l.address = RollupAddress
        /\ l.topic0 = NewPriorityRequest
        /\ watch.from <= l.block_number
        /\ l.block_number <= watch.to)

\* C12: on success get_priority_op_events returns one PriorityOp per log of the
\* filter, in chain order: the i-th result is the decoding of the i-th log,
\* nothing dropped, duplicated or reordered.
C12_OneOpPerLogInOrder ==
    (watch.name = "get_priority_op_events" /\ watch.res.status = "Ok") =>
        /\ Len(watch.res.ops) = Len(expected_logs)
        /\ \A i \in 1 .. Len(expected_logs) :
              /\ Len(expected_logs[i].data) = 2
              /\ watch.res.ops[i].serial_id = expected_logs[i].data[1]
              /\ watch.res.ops[i].data = expected_logs[i].data[2]
              /\ watch.res.ops[i].eth_block = expected_logs[i].block_number

C12_Witness ==
    /\ watch.name = "get_priority_op_events"
    /\ watch.res.status = "Ok"
    /\ Len(watch.node) = 2
    /\ Len(watch.res.ops) = 1
    /\ watch.node[1].address # RollupAddress
    /\ watch.res.ops[1].serial_id = 1
    /\ watch.res.ops[1].eth_block = watch.to

\* ---- C13 --------------------------------------------------------------------
RECURSIVE sum_balances(_, _, _)
sum_balances(ledger, ids, token) ==
    IF ids = {} THEN 0
    ELSE LET a == CHOOSE x \in ids : TRUE
         IN balance_of(ledger, a, token) + sum_balances(ledger, ids \ {a}, token)

\* what the ledger holds of a token, over all accounts
total_balance(ledger, token) == sum_balances(ledger, DOMAIN ledger.accounts, token)

\* the withdrawal amount an executed FullExitOp records, zero when absent
recorded_amount(op) == IF is_some(op.withdraw_amount) THEN unwrap(op.withdraw_amount) ELSE 0

\* C13: for every apply_tx that succeeds, the amount recorded in the executed
\* FullExitOp (zero when absent) is the decrease of the account's balance of the
\* token, and old minus new balance of the emitted update; the ledger's total
\* of the exited token decreases by exactly that amount and the totals of the
\* other tokens stay, so over a sequence of calls each total decreases by the
\* sum of the recorded amounts.
C13_RecordedAmountIsTheDecrease ==
    (call.name = "apply_tx" /\ last_res.status = "Ok") =>
        LET amount == recorded_amount(unwrap(last_res.executed_op).op)
        IN /\ balance_of(last_pre, last_fe.account_id, last_fe.token)
                - balance_of(state, last_fe.account_id, last_fe.token) = amount
           /\ \A i \in 1 .. Len(last_res.updates) :
                 last_res.updates[i].old_balance - last_res.updates[i].new_balance = amount
           /\ (last_res.updates = <<>> => amount = 0)
           /\ \A t \in Tokens :
                 total_balance(last_pre, t) - total_balance(state, t)
                    = IF t = last_fe.token THEN amount ELSE 0

C13_Witness ==
    /\ call.name = "apply_tx"
    /\ last_res.status = "Ok"
    /\ recorded_amount(unwrap(last_res.executed_op).op) = 2
    /\ total_balance(last_pre, last_fe.token) = 3
    /\ total_balance(state, last_fe.token) = 1

\* ---- C14 --------------------------------------------------------------------
\* C14: every apply_op call that returns normally reports exactly one duration
\* observation under state.full_exit, the call on an op with absent withdrawal
\* amount included.
C14_EveryApplyOpReportsItsDuration ==
    (call.name = "apply_op" /\ last_res.status = "Ok") =>
        last_res.metrics = << "state.full_exit" >>

\* ---- C15 --------------------------------------------------------------------
\* C15: apply_tx (create_op and apply_op back to back on the same ledger) with
\* a token id in the allowed range returns successfully or returns the
\* missing-NFT error: no abort of apply_op is reachable.
C15_SequentialApplyTxNeverAborts ==
    (call.name = "apply_tx" /\ last_fe.token <= max_token_id) =>
        \/ last_res.status = "Ok"
        \/ last_res.status = "Err" /\ last_res.error = ErrNftMissing

C15_Witness ==
    /\ call.name = "apply_tx"
    /\ last_fe.token <= max_token_id
    /\ last_fe.token > 0
    /\ owner_matches(last_pre, last_fe)
    /\ balance_of(last_pre, last_fe.account_id, 0) # balance_of(last_pre, last_fe.account_id, last_fe.token)
    /\ last_res.status = "Ok"

\* ---- C16 --------------------------------------------------------------------
\* C16: a successful apply_op with a present withdrawal amount changes only the
\* balance of the exited token in the target account: the other accounts, the
\* target's other balances, owner address and nonce, and the NFT registry are
\* unchanged; the update names the target account id and the exited token id.
C16_OnlyTheExitedBalanceChanges ==
    (/\ call.name = "apply_op"
     /\ last_res.status = "Ok"
     /\ is_some(last_op.withdraw_amount)) =>
        LET id == last_op.priority_op.account_id
            token == last_op.priority_op.token
            before == unwrap(get_account(last_pre, id))
            after == unwrap(get_account(state, id))
        IN /\ DOMAIN state.accounts = DOMAIN last_pre.accounts
           /\ \A a \in DOMAIN state.accounts \ {id} : state.accounts[a] = last_pre.accounts[a]
           /\ is_some(get_account(state, id))
           /\ after.address = before.address
           /\ after.nonce = before.nonce
           /\ \A t \in Tokens \ {token} : get_balance(after, t) = get_balance(before, t)
           /\ state.nfts = last_pre.nfts
           /\ Len(last_res.updates) = 1
           /\ last_res.updates[1].account_id = id
           /\ last_res.updates[1].token = token

C16_Witness ==
    /\ call.name = "apply_op"
    /\ last_res.status = "Ok"
    /\ is_some(last_op.withdraw_amount)
    /\ unwrap(last_op.withdraw_amount) > 0
    /\ \A a \in AccountIds : is_some(get_account(state, a))
    /\ \E t \in Tokens \ {last_op.priority_op.token} :
          balance_of(state, last_op.priority_op.account_id, t) > 0

\* ---- C17 --------------------------------------------------------------------
\* C17: when apply_tx fails because create_op reports a missing NFT record, the
\* ledger is as before the call and no AccountUpdate or executed-operation
\* record is produced, also when the owner matches and the balance is nonzero.
C17_MissingNftLeavesLedger ==
    (call.name = "apply_tx" /\ last_res.status = "Err" /\ last_res.error = ErrNftMissing) =>
        /\ state = last_pre
        /\ last_res.updates = <<>>
        /\ is_none(last_res.executed_op)
        /\ is_none(last_res.fee)

C17_Witness ==
    /\ call.name = "apply_tx"
    /\ last_res.status = "Err"
    /\ last_res.error = ErrNftMissing
    /\ owner_matches(last_pre, last_fe)
    /\ balance_of(last_pre, last_fe.account_id, last_fe.token) > 0
    /\ balance_of(state, last_fe.account_id, last_fe.token) > 0

held_amount(i) ==
    IF is_some(race.ops[i]) /\ is_some(unwrap(race.ops[i]).withdraw_amount)
    THEN unwrap(unwrap(race.ops[i]).withdraw_amount) ELSE 0

\* C19: under any interleaving of the create_op and apply_op steps of two full
\* exits of the same account and token, the withdrawal amounts of the apply_op
\* calls that returned sum to at most the balance held initially; when both
\* ops carry a nonzero amount and one apply_op has returned, the apply_op of
\* the other (stale) op aborts instead of returning.
C19_NoDoubleWithdrawal ==
    (race.exits # <<>>) =>
        /\ race.paid <= race.initial
        /\ \A i \in 1 .. 2 : \A j \in (1 .. 2) \ {i} :
              (/\ held_amount(i) > 0
               /\ held_amount(j) > 0
               /\ race.out[i] = "Ok"
               /\ race.out[j] # "") => race.out[j] = "Panic"

C19_Witness ==
    /\ race.exits # <<>>
    /\ held_amount(1) = 2
    /\ held_amount(2) = 2
    /\ race.out[2] = "Ok"
    /\ race.out[1] = "Panic"
    /\ race.paid = race.initial

TypeOK == call.name \in {"none", "create_op", "apply_op", "apply_tx"}
====
